---- MODULE Spec2Model ----
(***************************************************************************)
(* Direct messaging of arachna-connect: the public.messages table with its *)
(* row-level-security policies, and the Messages page that reads and       *)
(* writes it (fetchConversations, fetchMessages, sendMessage, the realtime *)
(* subscription).                                                          *)
(***************************************************************************)
EXTENDS Bags, FiniteSets, Integers, Sequences, TLC

(* ------------------------------ bounds --------------------------------- *)
MaxMsgs == 2
MaxClock == 1
MaxInFlight == 1
MaxChannels == 3

(* ------------------------------ inputs --------------------------------- *)
\* profiles.id of the registered users
Users == {"a", "b"}
\* browser tabs that can show the Messages page, and the user signed in on each
Pages == {"p1", "p2", "p3"}
user == [p \in Pages |-> IF p = "p3" THEN "b" ELSE "a"]
\* the tab whose page is followed step by step
Viewers == {"p1"}
\* the tab of the other user
OtherViewers == {"p3"}
\* user_roles rows with role = 'admin'
Admins == {"b"}
\* the user signed in on the tab that shows the Admin page
AdminUser == "b"
\* useState<string | null>(null)
NULL == "null"
\* strings are sequences of characters; " " is the only whitespace used
Blank == " "
Texts == {<<Blank>>, <<Blank, "x">>}
ApiTexts == {<<"y">>}
Ids == 1..MaxMsgs

VARIABLES msgs, clock, issued, profiles, typeProfiles, favorites, authUsers, reply,
          mounted, conversations, selectedConversation, messages, newMessage,
          loading, notice, inflight, channels,
          adminProfiles, deletingId, adminPc, toast

\* the tables and the identifier and time sources of the database
dbVars == <<msgs, clock, issued>>

\* the other tables
accountVars == <<profiles, typeProfiles, favorites, authUsers>>

\* the state of the Admin page
adminVars == <<adminProfiles, deletingId, adminPc, toast>>

vars == <<msgs, clock, issued, profiles, typeProfiles, favorites, authUsers, reply,
          mounted, conversations, selectedConversation, messages, newMessage,
          loading, notice, inflight, channels,
          adminProfiles, deletingId, adminPc, toast>>

(* --------------------------- pure functions ---------------------------- *)
\* String.prototype.trim
RECURSIVE TrimLeft(_)
TrimLeft(s) ==
  IF s = <<>> THEN <<>>
  ELSE IF Head(s) = Blank THEN TrimLeft(Tail(s)) ELSE s

RECURSIVE TrimRight(_)
TrimRight(s) ==
  IF s = <<>> THEN <<>>
  ELSE IF s[Len(s)] = Blank THEN TrimRight(SubSeq(s, 1, Len(s) - 1)) ELSE s

Trim(s) == TrimRight(TrimLeft(s))

\* all arrangements of the rows of S as a sequence
Arrangements(S) ==
  {f \in [1..Cardinality(S) -> S] : \A i, j \in 1..Cardinality(S) : i # j => f[i] # f[j]}

\* ORDER BY created_at ASC: rows with equal created_at come in any order
OrderAscending(S) ==
  {f \in Arrangements(S) : \A i, j \in 1..Len(f) : i < j => f[i].created_at <= f[j].created_at}

\* ORDER BY created_at DESC
OrderDescending(S) ==
  {f \in Arrangements(S) : \A i, j \in 1..Len(f) : i < j => f[i].created_at >= f[j].created_at}

\* a select policy that shows a message to its sender alone
CanViewSenderOnly(uid, m) == uid = m.sender_id

\* policy "Users can view their own messages"
CanView(uid, m) == uid = m.sender_id \/ uid = m.receiver_id

\* an insert policy that lets any signed-in user insert any row
CanInsertAnyone(uid, m) == TRUE

\* policy "Users can send messages"
CanInsert(uid, m) == uid = m.sender_id

\* an update policy that also lets the sender of a message update it
CanUpdateParticipant(uid, m) == uid = m.receiver_id \/ uid = m.sender_id

\* policy "Users can update read status of received messages"
CanUpdate(uid, m) == uid = m.receiver_id

\* the .or() filter of fetchConversations
ConversationsFilter(u, m) == m.sender_id = u \/ m.receiver_id = u

\* the filter of fetchMessages without the counterpart
MessagesFilterAnyCounterpart(u, otherUserId, m) == m.sender_id = u \/ m.receiver_id = u

\* the .or(and(..),and(..)) filter of fetchMessages
MessagesFilter(u, otherUserId, m) ==
  \/ (m.sender_id = u /\ m.receiver_id = otherUserId)
  \/ (m.sender_id = otherUserId /\ m.receiver_id = u)

\* the update filter without its sender_id term
MarkFilterAnySender(u, otherUserId, m) == m.receiver_id = u

\* the update filter with a term on read added
MarkFilterUnreadOnly(u, otherUserId, m) ==
  m.receiver_id = u /\ m.sender_id = otherUserId /\ ~m.read

\* the .eq('receiver_id', ..).eq('sender_id', ..) filter of the update
MarkFilter(u, otherUserId, m) == m.receiver_id = u /\ m.sender_id = otherUserId

\* what the two selects can return
SelectConversations(u) ==
  OrderDescending({m \in msgs : CanView(u, m) /\ ConversationsFilter(u, m)})

SelectMessages(u, otherUserId) ==
  OrderAscending({m \in msgs : CanView(u, m) /\ MessagesFilter(u, otherUserId, m)})

\* the inserted row with the read column defaulting to true
NewRowRead(id, sender, receiver, content, now) ==
  [id |-> id, sender_id |-> sender, receiver_id |-> receiver,
   content |-> content, read |-> TRUE, created_at |-> now]

\* the row an insert of {sender_id, receiver_id, content} creates
NewRow(id, sender, receiver, content, now) ==
  [id |-> id, sender_id |-> sender, receiver_id |-> receiver,
   content |-> content, read |-> FALSE, created_at |-> now]

\* an update that flips the read column
SetReadToggle(m) == [m EXCEPT !.read = ~@]

\* an update that also rewrites the content column
SetReadAndClear(m) == [m EXCEPT !.read = TRUE, !.content = <<>>]

\* update({ read: true }) applied to one row
SetRead(m) == [m EXCEPT !.read = TRUE]

\* an update statement without filter or policy: every row is set read
MarkReadAll(uid, u, otherUserId) == {SetRead(m) : m \in msgs}

\* the table after the update statement of fetchMessages run as uid
MarkRead(uid, u, otherUserId) ==
  {IF CanUpdate(uid, m) /\ MarkFilter(u, otherUserId, m) THEN SetRead(m) ELSE m : m \in msgs}

\* the number of rows the update statement of fetchMessages updates
RowsUpdated(uid, u, otherUserId) ==
  Cardinality({m \in msgs : CanUpdate(uid, m) /\ MarkFilter(u, otherUserId, m)})

\* the forEach body taking the sender of every row for the counterpart
OtherUserIdSender(u, msg) == msg.sender_id

\* the forEach body of fetchConversations
OtherUserId(u, msg) == IF msg.sender_id = u THEN msg.receiver_id ELSE msg.sender_id

FirstUnread(u, msg) == IF msg.receiver_id = u /\ ~msg.read THEN 1 ELSE 0

RECURSIVE BuildConversations(_, _, _)
BuildConversations(u, data, acc) ==
  IF data = <<>> THEN acc
  ELSE LET msg == Head(data)
           has == \E k \in 1..Len(acc) : acc[k].userId = OtherUserId(u, msg)
           conv == [userId |-> OtherUserId(u, msg), lastMessage |-> msg.content,
                    unreadCount |-> FirstUnread(u, msg)]
       IN BuildConversations(u, Tail(data), IF has THEN acc ELSE Append(acc, conv))

(* --------------------------- requests in flight ------------------------ *)
\* a request of the page that has been sent and not yet answered
Request(op, stage, other, content, sent) ==
  [op |-> op, stage |-> stage, other |-> other, content |-> content, sent |-> sent]

Pending(u) == BagToSet(inflight[u])

HasSlot(u) == BagCardinality(inflight[u]) < MaxInFlight

Add(u, r) == [inflight EXCEPT ![u] = @ (+) SetToBag({r})]

Replace(u, r, s) == [inflight EXCEPT ![u] = (@ (-) SetToBag({r})) (+) SetToBag({s})]

Remove(u, r) == [inflight EXCEPT ![u] = @ (-) SetToBag({r})]

FetchConversationsRequest == Request("fetchConversations", "select", NULL, <<>>, 0)

FetchMessagesRequest(otherUserId, sent) == Request("fetchMessages", "select", otherUserId, <<>>, sent)

UpdateRequest(otherUserId) == Request("fetchMessages", "update", otherUserId, <<>>, 0)

InsertRequest(otherUserId, content) == Request("sendMessage", "insert", otherUserId, content, 0)

(* ------------------------------- state --------------------------------- *)
\* a channel made by setupRealtimeSubscription: the tab that made it, the
\* selectedConversation its callback closed over, whether the component that
\* made it has been torn down since, and the events sent to it and not yet handled
Channel(p, sel) == [page |-> p, sel |-> sel, stale |-> FALSE, queue |-> <<>>]

\* notice: the last error the Messages page of a tab has shown with toast.error

\* favorites rows
Favorite(userId, favoritedUserId) == [user_id |-> userId, favorited_user_id |-> favoritedUserId]

\* a request sent straight to the API, with its answer: the HTTP status and
\* the number of rows written
Reply(op, uid, receiver, sender, status, rows) ==
  [op |-> op, uid |-> uid, receiver |-> receiver, sender |-> sender,
   status |-> status, rows |-> rows]

Init ==
  /\ msgs = {}
  /\ clock = 0
  /\ issued = 0
  /\ profiles = Users
  /\ typeProfiles = Users
  /\ favorites = {Favorite("a", "b"), Favorite("b", "a")}
  /\ authUsers = Users
  /\ reply = Reply(NULL, NULL, NULL, NULL, NULL, 0)
  /\ mounted = [p \in Pages |-> FALSE]
  /\ conversations = [p \in Pages |-> <<>>]
  /\ selectedConversation = [p \in Pages |-> NULL]
  /\ messages = [p \in Pages |-> <<>>]
  /\ newMessage = [p \in Pages |-> <<>>]
  /\ loading = [p \in Pages |-> TRUE]
  /\ notice = [p \in Pages |-> NULL]
  /\ inflight = [p \in Pages |-> EmptyBag]
  /\ channels = <<>>
  /\ adminProfiles = {}
  /\ deletingId = NULL
  /\ adminPc = "closed"
  /\ toast = NULL

(* --------------------------- the messages table ------------------------ *)
\* DEFAULT now(): the clock read by an insert has not gone back, and may not have advanced
Nows == {t \in {clock, clock + 1} : t <= MaxClock}

\* DEFAULT gen_random_uuid(): an identifier never given out before. The code
\* compares identifiers for equality only, so they are numbered in order of issue
FreshIds == {i \in Ids : i = issued + 1}

\* sender_id and receiver_id REFERENCES profiles(id)
ForeignKeys(row) == row.sender_id \in profiles /\ row.receiver_id \in profiles

\* the postgres_changes filter of a channel sent to every row instead of the receiver's
ChannelFilterBroadcast(ch, row) == TRUE

\* the postgres_changes filter receiver_id=eq.<user> of a channel
ChannelFilter(ch, row) == row.receiver_id = user[ch.page]

\* postgres_changes INSERT: the row is sent to every channel whose filter it passes
Publish(row) ==
  [c \in 1..Len(channels) |->
     IF ChannelFilter(channels[c], row)
       THEN [channels[c] EXCEPT !.queue = Append(@, row)]
       ELSE channels[c]]

\* an insert of {sender_id, receiver_id, content} sent straight to the table by a signed-in user
ApiInsert(uid, sender, receiver, content) ==
  /\ issued < MaxMsgs
  /\ \E id \in FreshIds, now \in Nows :
       LET row == NewRow(id, sender, receiver, content, now)
       IN /\ CanInsert(uid, row)
          /\ ForeignKeys(row)
          /\ msgs' = msgs \cup {row}
          /\ clock' = now
          /\ issued' = id
          /\ channels' = Publish(row)
  /\ reply' = Reply("insert", uid, receiver, sender, "created", 1)
  /\ UNCHANGED <<accountVars, adminVars, mounted, conversations, selectedConversation,
                 messages, newMessage, loading, notice, inflight>>

\* the same insert refused by the insert policy or by a foreign key
ApiInsertRejected(uid, sender, receiver, content) ==
  /\ LET row == NewRow(issued + 1, sender, receiver, content, clock)
     IN /\ ~(CanInsert(uid, row) /\ ForeignKeys(row))
        /\ reply' = Reply("insert", uid, receiver, sender,
                         IF CanInsert(uid, row) THEN "conflict" ELSE "forbidden", 0)
  /\ UNCHANGED <<dbVars, accountVars, adminVars, mounted, conversations,
                 selectedConversation, messages, newMessage, loading, notice, inflight, channels>>

\* update({ read: true }).eq('receiver_id', receiver).eq('sender_id', sender)
\* sent straight to the table by a signed-in user
ApiMarkRead(uid, receiver, sender) ==
  /\ msgs' = MarkRead(uid, receiver, sender)
  /\ reply' = Reply("update", uid, receiver, sender, "ok", RowsUpdated(uid, receiver, sender))
  /\ UNCHANGED <<clock, issued, accountVars, adminVars, mounted, conversations,
                 selectedConversation, messages, newMessage, loading, notice, inflight, channels>>

(* ------------------------------ the page ------------------------------- *)
\* setupRealtimeSubscription that also hands the new channel the stored rows
MountChannelsReplay(p) ==
  Append(channels,
         [Channel(p, selectedConversation[p]) EXCEPT
            !.queue = CHOOSE f \in OrderAscending({m \in msgs : m.receiver_id = user[p]}) : TRUE])

\* setupRealtimeSubscription: a channel is made and subscribed
MountChannels(p) == Append(channels, Channel(p, selectedConversation[p]))

\* useEffect at mount: fetchConversations(); setupRealtimeSubscription()
Mount(p) ==
  /\ ~mounted[p]
  /\ Len(channels) < MaxChannels
  /\ mounted' = [mounted EXCEPT ![p] = TRUE]
  /\ inflight' = Add(p, FetchConversationsRequest)
  /\ channels' = MountChannels(p)
  /\ UNCHANGED <<dbVars, accountVars, reply, adminVars, conversations, selectedConversation,
                 messages, newMessage, loading, notice>>

\* the page is left with no request waiting (Button onClick navigate("/feed")):
\* the component and its state are gone. The useEffect returns no cleanup, so
\* removeChannel is not called and the channels the page made stay subscribed
Unmount(p) ==
  /\ mounted[p]
  /\ inflight[p] = EmptyBag
  /\ mounted' = [mounted EXCEPT ![p] = FALSE]
  /\ conversations' = [conversations EXCEPT ![p] = <<>>]
  /\ selectedConversation' = [selectedConversation EXCEPT ![p] = NULL]
  /\ messages' = [messages EXCEPT ![p] = <<>>]
  /\ newMessage' = [newMessage EXCEPT ![p] = <<>>]
  /\ loading' = [loading EXCEPT ![p] = TRUE]
  /\ channels' = [c \in 1..Len(channels) |->
                    IF channels[c].page = p THEN [channels[c] EXCEPT !.stale = TRUE]
                                            ELSE channels[c]]
  /\ UNCHANGED <<dbVars, accountVars, reply, adminVars, notice, inflight>>

\* fetchConversations: the select is answered with rows
FetchConversationsDone(p) ==
  /\ FetchConversationsRequest \in Pending(p)
  /\ \E data \in SelectConversations(user[p]) :
       conversations' = [conversations EXCEPT ![p] = BuildConversations(user[p], data, <<>>)]
  /\ loading' = [loading EXCEPT ![p] = FALSE]
  /\ inflight' = Remove(p, FetchConversationsRequest)
  /\ UNCHANGED <<dbVars, accountVars, reply, adminVars, mounted, selectedConversation,
                 messages, newMessage, notice, channels>>

\* fetchConversations: the select is answered with an error, which is thrown and shown
FetchConversationsFails(p) ==
  /\ FetchConversationsRequest \in Pending(p)
  /\ loading' = [loading EXCEPT ![p] = FALSE]
  /\ notice' = [notice EXCEPT ![p] = "Erro ao carregar conversas"]
  /\ inflight' = Remove(p, FetchConversationsRequest)
  /\ UNCHANGED <<dbVars, accountVars, reply, adminVars, mounted, conversations,
                 selectedConversation, messages, newMessage, channels>>

\* onClick of a conversation button
SelectConversation(p, i) ==
  /\ mounted[p] /\ ~loading[p]
  /\ i \in 1..Len(conversations[p])
  /\ HasSlot(p)
  /\ selectedConversation' = [selectedConversation EXCEPT ![p] = conversations[p][i].userId]
  /\ inflight' = Add(p, FetchMessagesRequest(conversations[p][i].userId, 0))
  /\ UNCHANGED <<dbVars, accountVars, reply, adminVars, mounted, conversations, messages,
                 newMessage, loading, notice, channels>>

\* onClick of a conversation button while a fetchMessages of the tab is still
\* unanswered: one more request is let out than HasSlot allows
SelectWhileFetching(p, i) ==
  /\ mounted[p] /\ ~loading[p]
  /\ i \in 1..Len(conversations[p])
  /\ \E r \in Pending(p) : r.op = "fetchMessages"
  /\ BagCardinality(inflight[p]) < MaxInFlight + 1
  /\ selectedConversation' = [selectedConversation EXCEPT ![p] = conversations[p][i].userId]
  /\ inflight' = Add(p, FetchMessagesRequest(conversations[p][i].userId, 0))
  /\ UNCHANGED <<dbVars, accountVars, reply, adminVars, mounted, conversations, messages,
                 newMessage, loading, notice, channels>>

\* fetchMessages: the select is answered with rows; setMessages, then the update is sent
FetchMessagesResponse(p, r) ==
  /\ r \in Pending(p)
  /\ r.op = "fetchMessages" /\ r.stage = "select"
  /\ \E data \in SelectMessages(user[p], r.other) : messages' = [messages EXCEPT ![p] = data]
  /\ inflight' = Replace(p, r, UpdateRequest(r.other))
  /\ UNCHANGED <<dbVars, accountVars, reply, adminVars, mounted, conversations,
                 selectedConversation, newMessage, loading, notice, channels>>

\* fetchMessages: the select is answered with an error, which is thrown and logged
FetchMessagesFails(p, r) ==
  /\ r \in Pending(p)
  /\ r.op = "fetchMessages" /\ r.stage = "select"
  /\ inflight' = Remove(p, r)
  /\ UNCHANGED <<dbVars, accountVars, reply, adminVars, mounted, conversations,
                 selectedConversation, messages, newMessage, loading, notice, channels>>

\* fetchMessages: the update({ read: true }) runs on the table
FetchMessagesUpdate(p, r) ==
  /\ r \in Pending(p)
  /\ r.op = "fetchMessages" /\ r.stage = "update"
  /\ msgs' = MarkRead(user[p], user[p], r.other)
  /\ inflight' = Remove(p, r)
  /\ UNCHANGED <<clock, issued, accountVars, reply, adminVars, mounted, conversations,
                 selectedConversation, messages, newMessage, loading, notice, channels>>

\* fetchMessages: the update fails; its result is not looked at
FetchMessagesUpdateFails(p, r) ==
  /\ r \in Pending(p)
  /\ r.op = "fetchMessages" /\ r.stage = "update"
  /\ inflight' = Remove(p, r)
  /\ UNCHANGED <<dbVars, accountVars, reply, adminVars, mounted, conversations,
                 selectedConversation, messages, newMessage, loading, notice, channels>>

\* onChange of the input
TypeMessage(p, text) ==
  /\ mounted[p] /\ ~loading[p]
  /\ selectedConversation[p] # NULL
  /\ newMessage[p] # text
  /\ newMessage' = [newMessage EXCEPT ![p] = text]
  /\ UNCHANGED <<dbVars, accountVars, reply, adminVars, mounted, conversations,
                 selectedConversation, messages, loading, notice, inflight, channels>>

\* the early return of sendMessage without the trim
SendMessageReturnsUntrimmed(draft, selected) == draft = <<>> \/ selected = NULL

\* the early return of sendMessage
SendMessageReturns(draft, selected) == Trim(draft) = <<>> \/ selected = NULL

\* sendMessage called with a draft it returns on
SendMessageIgnored(p) ==
  /\ mounted[p] /\ ~loading[p]
  /\ selectedConversation[p] # NULL
  /\ SendMessageReturns(newMessage[p], selectedConversation[p])
  /\ UNCHANGED vars

\* sendMessage up to the await: the insert is sent
SendMessage(p) ==
  /\ mounted[p] /\ ~loading[p]
  /\ selectedConversation[p] # NULL
  /\ ~SendMessageReturns(newMessage[p], selectedConversation[p])
  /\ HasSlot(p)
  /\ inflight' = Add(p, InsertRequest(selectedConversation[p], Trim(newMessage[p])))
  /\ UNCHANGED <<dbVars, accountVars, reply, adminVars, mounted, conversations,
                 selectedConversation, messages, newMessage, loading, notice, channels>>

\* sendMessage: the insert runs on the table; setNewMessage(""), fetchMessages
SendMessageDone(p, r) ==
  /\ r \in Pending(p)
  /\ r.op = "sendMessage"
  /\ issued < MaxMsgs
  /\ \E id \in FreshIds, now \in Nows :
       LET row == NewRow(id, user[p], r.other, r.content, now)
       IN /\ CanInsert(user[p], row)
          /\ ForeignKeys(row)
          /\ msgs' = msgs \cup {row}
          /\ clock' = now
          /\ issued' = id
          /\ channels' = Publish(row)
          /\ inflight' = Replace(p, r, FetchMessagesRequest(r.other, id))
  /\ newMessage' = [newMessage EXCEPT ![p] = <<>>]
  /\ UNCHANGED <<accountVars, reply, adminVars, mounted, conversations,
                 selectedConversation, messages, loading, notice>>

\* a catch branch of sendMessage that also empties the draft
SendMessageFailsClears(p, r) ==
  /\ r \in Pending(p)
  /\ r.op = "sendMessage"
  /\ inflight' = Remove(p, r)
  /\ newMessage' = [newMessage EXCEPT ![p] = <<>>]
  /\ notice' = [notice EXCEPT ![p] = "Erro ao enviar mensagem"]
  /\ UNCHANGED <<dbVars, accountVars, reply, adminVars, mounted, conversations,
                 selectedConversation, messages, loading, channels>>

\* sendMessage: the insert is answered with an error, which is thrown and shown
SendMessageFails(p, r) ==
  /\ r \in Pending(p)
  /\ r.op = "sendMessage"
  /\ inflight' = Remove(p, r)
  /\ notice' = [notice EXCEPT ![p] = "Erro ao enviar mensagem"]
  /\ UNCHANGED <<dbVars, accountVars, reply, adminVars, mounted, conversations,
                 selectedConversation, messages, newMessage, loading, channels>>

\* the postgres_changes callback of channel c runs on the event at the head of
\* its queue. In a channel left behind by a component that is gone, setMessages
\* does nothing and the answer to fetchConversations is dropped
Receive(c) ==
  /\ c \in 1..Len(channels)
  /\ channels[c].queue # <<>>
  /\ LET ch == channels[c]
         newMsg == Head(ch.queue)
     IN IF ch.stale
          THEN UNCHANGED <<messages, inflight>>
          ELSE /\ HasSlot(ch.page)
               /\ messages' = [messages EXCEPT ![ch.page] =
                                 IF ch.sel = newMsg.sender_id THEN Append(@, newMsg) ELSE @]
               /\ inflight' = Add(ch.page, FetchConversationsRequest)
  /\ channels' = [channels EXCEPT ![c].queue = Tail(@)]
  /\ UNCHANGED <<dbVars, accountVars, reply, adminVars, mounted, conversations,
                 selectedConversation, newMessage, loading, notice>>

(* --------------------------- account deletion -------------------------- *)
\* a has_role that takes every signed-in user for an administrator
HasRoleAnyone(uid) == uid \in authUsers

\* public.has_role(uid, 'admin'); user_roles rows go with their auth.users row
HasRole(uid) == uid \in Admins /\ uid \in authUsers

\* policies "Admins can delete any artist profile" / "... organizer profile"
CanDeleteTypeProfile(uid) == HasRole(uid)

\* policy "Users can delete their own favorites"
CanDeleteFavorite(uid, f) == uid = f.user_id

\* public.messages has no policy FOR DELETE: row level security lets no row be deleted
CanDeleteMessage(uid, m) == FALSE

\* policy "Admins can delete any profile"
CanDeleteProfile(uid) == HasRole(uid)

\* messages.sender_id ON DELETE CASCADE alone
CascadeMessagesSenderOnly(id) == {m \in msgs : m.sender_id # id}

\* messages.sender_id and messages.receiver_id REFERENCES profiles(id) ON DELETE CASCADE
CascadeMessages(id) == {m \in msgs : m.sender_id # id /\ m.receiver_id # id}

\* favorites.user_id and favorites.favorited_user_id REFERENCES profiles(id) ON DELETE CASCADE
CascadeFavorites(id) == {f \in favorites : f.user_id # id /\ f.favorited_user_id # id}

\* the values the Authorization header of a request to delete-account can
\* carry: none, a token no user goes with, or the token of a user
Tokens == {NULL, "invalid"} \cup Users

\* the delete-account function called with a token and a body. Without a header
\* or a user of the token: 401. With a targetUserId and a caller who is not an
\* administrator: 403. Otherwise auth.admin.deleteUser on the target, or on
\* the caller when the body names none: 500 when it fails, else the auth user
\* is gone and the rows that reference it go with it
DeleteAccount(token, targetUserId) ==
  LET status == IF token = NULL \/ token \notin authUsers THEN "401"
                ELSE IF targetUserId # NULL /\ ~HasRole(token) THEN "403"
                ELSE IF (IF targetUserId # NULL THEN targetUserId ELSE token) \notin authUsers
                  THEN "500"
                ELSE "200"
      id == IF targetUserId # NULL THEN targetUserId ELSE token
  IN /\ IF status = "200"
          THEN /\ authUsers' = authUsers \ {id}
               /\ profiles' = profiles \ {id}
               /\ typeProfiles' = typeProfiles \ {id}
               /\ favorites' = CascadeFavorites(id)
               /\ msgs' = CascadeMessages(id)
          ELSE UNCHANGED <<authUsers, profiles, typeProfiles, favorites, msgs>>
     /\ reply' = Reply("delete-account", token, targetUserId, NULL, status,
                       IF status = "200" THEN 1 ELSE 0)
     /\ UNCHANGED <<clock, issued, adminVars, mounted, conversations, selectedConversation,
                    messages, newMessage, loading, notice, inflight, channels>>

\* the Admin page is opened by the administrator: fetchProfiles is sent
AdminOpen ==
  /\ adminPc = "closed"
  /\ HasRole(AdminUser)
  /\ adminPc' = "fetchProfiles"
  /\ UNCHANGED <<dbVars, accountVars, reply, mounted, conversations, selectedConversation,
                 messages, newMessage, loading, notice, inflight, channels,
                 adminProfiles, deletingId, toast>>

\* fetchProfiles is answered: setProfiles(data), or the error toast
AdminFetchProfiles(ok) ==
  /\ adminPc = "fetchProfiles"
  /\ adminProfiles' = IF ok THEN profiles ELSE adminProfiles
  /\ toast' = IF ok THEN toast ELSE "error"
  /\ adminPc' = "idle"
  /\ UNCHANGED <<dbVars, accountVars, reply, mounted, conversations, selectedConversation,
                 messages, newMessage, loading, notice, inflight, channels, deletingId>>

\* handleDeleteProfile up to its first await: setDeletingId, and the delete on
\* artist_profiles or organizer_profiles is sent
HandleDeleteProfile(profileId) ==
  /\ adminPc = "idle"
  /\ profileId \in adminProfiles
  /\ deletingId' = profileId
  /\ adminPc' = "typeProfile"
  /\ UNCHANGED <<dbVars, accountVars, reply, mounted, conversations, selectedConversation,
                 messages, newMessage, loading, notice, inflight, channels, adminProfiles, toast>>

\* the delete on artist_profiles / organizer_profiles is answered (its error is
\* not looked at); the delete on favorites is sent
AdminTypeProfileStep(ok) ==
  /\ adminPc = "typeProfile"
  /\ typeProfiles' = IF ok /\ CanDeleteTypeProfile(AdminUser)
                       THEN typeProfiles \ {deletingId} ELSE typeProfiles
  /\ adminPc' = "favorites"
  /\ UNCHANGED <<dbVars, profiles, favorites, authUsers, reply, mounted, conversations,
                 selectedConversation, messages, newMessage, loading, notice, inflight, channels,
                 adminProfiles, deletingId, toast>>

\* the delete on favorites is answered (its error is not looked at); the
\* delete on messages is sent
AdminFavoritesStep(ok) ==
  /\ adminPc = "favorites"
  /\ favorites' = IF ok
                    THEN {f \in favorites :
                            ~(/\ CanDeleteFavorite(AdminUser, f)
                              /\ (f.user_id = deletingId \/ f.favorited_user_id = deletingId))}
                    ELSE favorites
  /\ adminPc' = "messages"
  /\ UNCHANGED <<dbVars, profiles, typeProfiles, authUsers, reply, mounted, conversations,
                 selectedConversation, messages, newMessage, loading, notice, inflight, channels,
                 adminProfiles, deletingId, toast>>

\* the delete on messages is answered (its error is not looked at); the
\* delete on profiles is sent
AdminMessagesStep(ok) ==
  /\ adminPc = "messages"
  /\ msgs' = IF ok
               THEN {m \in msgs :
                       ~(/\ CanDeleteMessage(AdminUser, m)
                         /\ (m.sender_id = deletingId \/ m.receiver_id = deletingId))}
               ELSE msgs
  /\ adminPc' = "profile"
  /\ UNCHANGED <<clock, issued, accountVars, reply, mounted, conversations,
                 selectedConversation, messages, newMessage, loading, notice, inflight, channels,
                 adminProfiles, deletingId, toast>>

\* the delete on profiles is answered. With profileError the handler throws:
\* error toast, setDeletingId(null). Without, the row is gone if the policy
\* let it be deleted, the rows that reference it go with it, and delete-account
\* is invoked
AdminProfileStep(ok) ==
  /\ adminPc = "profile"
  /\ IF ok
       THEN /\ IF CanDeleteProfile(AdminUser)
                 THEN /\ profiles' = profiles \ {deletingId}
                      /\ typeProfiles' = typeProfiles \ {deletingId}
                      /\ favorites' = CascadeFavorites(deletingId)
                      /\ msgs' = CascadeMessages(deletingId)
                 ELSE UNCHANGED <<profiles, typeProfiles, favorites, msgs>>
            /\ adminPc' = "deleteAccount"
            /\ UNCHANGED <<deletingId, toast>>
       ELSE /\ toast' = "error"
            /\ deletingId' = NULL
            /\ adminPc' = "idle"
            /\ UNCHANGED <<profiles, typeProfiles, favorites, msgs>>
  /\ UNCHANGED <<clock, issued, authUsers, reply, mounted, conversations,
                 selectedConversation, messages, newMessage, loading, notice, inflight, channels,
                 adminProfiles>>

\* delete-account is answered (its error is only logged): with a valid
\* administrator it has deleted the auth user, and the profile and the rows
\* that reference it go with it. Then setProfiles(filter), success toast,
\* setDeletingId(null)
AdminDeleteAccountStep(ok) ==
  /\ adminPc = "deleteAccount"
  /\ IF ok /\ AdminUser \in authUsers /\ HasRole(AdminUser)
       THEN /\ authUsers' = authUsers \ {deletingId}
            /\ profiles' = profiles \ {deletingId}
            /\ typeProfiles' = typeProfiles \ {deletingId}
            /\ favorites' = CascadeFavorites(deletingId)
            /\ msgs' = CascadeMessages(deletingId)
       ELSE UNCHANGED <<authUsers, profiles, typeProfiles, favorites, msgs>>
  /\ adminProfiles' = adminProfiles \ {deletingId}
  /\ toast' = "success"
  /\ deletingId' = NULL
  /\ adminPc' = "idle"
  /\ UNCHANGED <<clock, issued, reply, mounted, conversations, selectedConversation,
                 messages, newMessage, loading, notice, inflight, channels>>

\* the requests that can be in flight
Requests ==
  {FetchConversationsRequest}
    \cup {FetchMessagesRequest(o, i) : o \in Users, i \in {0} \cup Ids}
    \cup {UpdateRequest(o) : o \in Users}
    \cup {InsertRequest(o, Trim(t)) : o \in Users, t \in Texts}

\* one tab on the Messages page, and the other user writing to the table
Next ==
  \/ \E uid \in Users, receiver \in Users, content \in ApiTexts :
       ApiInsert(uid, uid, receiver, content)
  \/ \E p \in Viewers : Mount(p)
  \/ \E p \in Viewers : FetchConversationsDone(p)
  \/ \E p \in Viewers : FetchConversationsFails(p)
  \/ \E p \in Viewers, i \in 1..MaxMsgs : SelectConversation(p, i)
  \/ \E p \in Viewers, r \in Requests : FetchMessagesResponse(p, r)
  \/ \E p \in Viewers, r \in Requests : FetchMessagesFails(p, r)
  \/ \E p \in Viewers, r \in Requests : FetchMessagesUpdate(p, r)
  \/ \E p \in Viewers, r \in Requests : FetchMessagesUpdateFails(p, r)
  \/ \E p \in Viewers, text \in Texts : TypeMessage(p, text)
  \/ \E p \in Viewers : SendMessageIgnored(p)
  \/ \E p \in Viewers : SendMessage(p)
  \/ \E p \in Viewers, r \in Requests : SendMessageDone(p, r)
  \/ \E p \in Viewers, r \in Requests : SendMessageFails(p, r)
  \/ \E c \in 1..MaxChannels : Receive(c)

Spec == Init /\ [][Next]_vars

\* signed-in users sending inserts and updates straight to the table
NextApi ==
  \/ \E uid \in Users, sender \in Users, receiver \in Users, content \in ApiTexts :
       ApiInsert(uid, sender, receiver, content)
  \/ \E uid \in Users, sender \in Users, receiver \in Users, content \in ApiTexts :
       ApiInsertRejected(uid, sender, receiver, content)
  \/ \E uid \in Users, receiver \in Users, sender \in Users :
       ApiMarkRead(uid, receiver, sender)

SpecApi == Init /\ [][NextApi]_vars

\* one tab on the Messages page that only reads
NextRead ==
  \/ \E uid \in Users, receiver \in Users, content \in ApiTexts :
       ApiInsert(uid, uid, receiver, content)
  \/ \E p \in Viewers : Mount(p)
  \/ \E p \in Viewers : FetchConversationsDone(p)
  \/ \E p \in Viewers, i \in 1..MaxMsgs : SelectConversation(p, i)
  \/ \E p \in Viewers, r \in Requests : FetchMessagesResponse(p, r)
  \/ \E p \in Viewers, r \in Requests : FetchMessagesUpdate(p, r)
  \/ \E c \in 1..MaxChannels : Receive(c)

SpecRead == Init /\ [][NextRead]_vars

\* three tabs, two of one user, opening the Messages page while the two users
\* write to each other
NextSub ==
  \/ \E uid \in Users : \E receiver \in Users \ {uid}, content \in ApiTexts :
       ApiInsert(uid, uid, receiver, content)
  \/ \E p \in Pages : Mount(p)
  \/ \E p \in Pages : FetchConversationsDone(p)
  \/ \E c \in 1..MaxChannels : Receive(c)

SpecSub == Init /\ [][NextSub]_vars

\* one tab opening and leaving the Messages page while messages are stored
NextLeave ==
  \/ \E uid \in Users, receiver \in Users, content \in ApiTexts :
       ApiInsert(uid, uid, receiver, content)
  \/ \E p \in Viewers : Mount(p)
  \/ \E p \in Viewers : Unmount(p)
  \/ \E p \in Viewers : FetchConversationsDone(p)
  \/ \E c \in 1..MaxChannels : Receive(c)

SpecLeave == Init /\ [][NextLeave]_vars

\* the administrator deleting profiles while messages are stored and listed
NextAdmin ==
  \/ \E uid \in Users, sender \in Users, receiver \in Users, content \in ApiTexts :
       ApiInsert(uid, sender, receiver, content)
  \/ \E uid \in Users, receiver \in Users, content \in ApiTexts :
       ApiInsertRejected(uid, uid, receiver, content)
  \/ AdminOpen
  \/ \E ok \in BOOLEAN : AdminFetchProfiles(ok)
  \/ \E profileId \in Users : HandleDeleteProfile(profileId)
  \/ \E ok \in BOOLEAN : AdminTypeProfileStep(ok)
  \/ \E ok \in BOOLEAN : AdminFavoritesStep(ok)
  \/ \E ok \in BOOLEAN : AdminMessagesStep(ok)
  \/ \E ok \in BOOLEAN : AdminProfileStep(ok)
  \/ \E ok \in BOOLEAN : AdminDeleteAccountStep(ok)
  \/ \E p \in OtherViewers : Mount(p)
  \/ \E p \in OtherViewers : FetchConversationsDone(p)
  \/ \E c \in 1..MaxChannels : Receive(c)

SpecAdmin == Init /\ [][NextAdmin]_vars

\* one tab on the Messages page whose viewer clicks a second conversation
\* before the first has been answered
NextRace ==
  \/ \E uid \in Users, receiver \in Users, content \in ApiTexts :
       ApiInsert(uid, uid, receiver, content)
  \/ \E p \in Viewers : Mount(p)
  \/ \E p \in Viewers : FetchConversationsDone(p)
  \/ \E p \in Viewers, i \in 1..MaxMsgs : SelectConversation(p, i)
  \/ \E p \in Viewers, i \in 1..MaxMsgs : SelectWhileFetching(p, i)
  \/ \E p \in Viewers, r \in Requests : FetchMessagesResponse(p, r)
  \/ \E p \in Viewers, r \in Requests : FetchMessagesUpdate(p, r)

SpecRace == Init /\ [][NextRace]_vars

\* the answers the tab is waiting for and the events sent to it are delivered
Answers ==
  \/ \E p \in Viewers : FetchConversationsDone(p)
  \/ \E p \in Viewers, r \in Requests : FetchMessagesResponse(p, r)
  \/ \E p \in Viewers, r \in Requests : FetchMessagesUpdate(p, r)
  \/ \E c \in 1..MaxChannels : Receive(c)

\* the reading tab with every request answered and every event handled in the
\* end; nobody is obliged to send a message
SpecReadLive == Init /\ [][NextRead]_vars /\ WF_vars(Answers)

\* requests sent to the delete-account function while messages are stored
NextAccount ==
  \/ \E uid \in Users, receiver \in Users, content \in ApiTexts :
       ApiInsert(uid, uid, receiver, content)
  \/ \E token \in Tokens, targetUserId \in Users \cup {NULL} :
       DeleteAccount(token, targetUserId)

SpecAccount == Init /\ [][NextAccount]_vars

(* ------------------------------ properties ----------------------------- *)
\* the unread messages u holds from otherUserId in a table
Unread(table, u, otherUserId) ==
  {m \in table : m.receiver_id = u /\ m.sender_id = otherUserId /\ ~m.read}

\* the positions of the row with identifier id in a result
Positions(data, id) == {i \in 1..Len(data) : data[i].id = id}

\* the rows of a conversation stored after the row with identifier id
StoredAfter(u, otherUserId, id) ==
  {m \in msgs : MessagesFilter(u, otherUserId, m) /\ m.id > id}

\* C1: when sendMessage has stored a message for another user and its
\* fetchMessages is answered before anything else is stored in the conversation,
\* the rows returned hold the new message exactly once, as the last element
C1_SentMessageIsLast ==
  [][\A p \in Viewers, r \in Requests :
       (/\ FetchMessagesResponse(p, r)
        /\ r.sent # 0 /\ r.other # user[p]
        /\ StoredAfter(user[p], r.other, r.sent) = {})
         => Positions(messages'[p], r.sent) = {Len(messages'[p])}]_vars

\* C2: the unreadCount fetchConversations reports for another user is the
\* number of unread messages the viewer holds from that user
C2_UnreadCountIsCount ==
  [][\A p \in Viewers :
       FetchConversationsDone(p)
         => \A i \in 1..Len(conversations'[p]) :
              conversations'[p][i].userId # user[p]
                => conversations'[p][i].unreadCount
                     = Cardinality(Unread(msgs, user[p], conversations'[p][i].userId))]_vars

\* C7: the rows fetchMessages returns for a conversation with another user are
\* in ascending (created_at, id) order
C7_AscendingByTimeThenId ==
  [][\A p \in Viewers, r \in Requests :
       (FetchMessagesResponse(p, r) /\ r.other # user[p])
         => \A i, j \in 1..Len(messages'[p]) :
              i < j => \/ messages'[p][i].created_at < messages'[p][j].created_at
                       \/ /\ messages'[p][i].created_at = messages'[p][j].created_at
                          /\ messages'[p][i].id < messages'[p][j].id]_vars

\* C3 as stated: no step of fetchMessages changes the read flag of a stored message
C3_FetchLeavesReadFlags ==
  [][\A p \in Viewers, r \in Requests :
       (FetchMessagesResponse(p, r) \/ FetchMessagesUpdate(p, r))
         => \A m \in msgs : \E n \in msgs' : n.id = m.id /\ n.read = m.read]_vars

\* C3 amended: the select of fetchMessages changes no stored message and is
\* followed by the update of the same call; that update sets read on every
\* message the caller received from the counterpart and changes no other row
C3_FetchMarksCounterpartOnly ==
  [][\A p \in Viewers, r \in Requests :
       /\ FetchMessagesResponse(p, r)
            => msgs' = msgs /\ BagIn(UpdateRequest(r.other), inflight'[p])
       /\ FetchMessagesUpdate(p, r)
            => /\ Cardinality(msgs') = Cardinality(msgs)
               /\ \A m \in msgs :
                    IF m.receiver_id = user[p] /\ m.sender_id = r.other
                      THEN [m EXCEPT !.read = TRUE] \in msgs'
                      ELSE m \in msgs']_vars

C3_Witness ==
  \E p \in Viewers :
    /\ messages[p] # <<>>
    /\ \E m \in msgs : m.read /\ m.receiver_id = user[p] /\ m.sender_id # user[p]
    /\ \E n \in msgs : ~n.read /\ n.receiver_id = user[p]

C5_CountsTransitionedRows ==
  [][\A p \in Viewers, r \in Requests :
       FetchMessagesUpdate(p, r)
         => RowsUpdated(user[p], user[p], r.other) = Cardinality(Unread(msgs, user[p], r.other))]_vars

\* C5 amended: the update statement updates every message the receiver holds
\* from the sender, read or not; the rows that change are the unread ones
C5_UpdatesEveryMatchingRow ==
  [][\A p \in Viewers, r \in Requests :
       FetchMessagesUpdate(p, r)
         => /\ RowsUpdated(user[p], user[p], r.other)
                 = Cardinality({m \in msgs : m.receiver_id = user[p] /\ m.sender_id = r.other})
            /\ msgs \ msgs' = Unread(msgs, user[p], r.other)]_vars

C5_Witness ==
  \E p \in Viewers, o \in Users :
    /\ o # user[p]
    /\ BagIn(UpdateRequest(o), inflight[p])
    /\ \E m \in msgs : m.receiver_id = user[p] /\ m.sender_id = o /\ m.read
    /\ Unread(msgs, user[p], o) # {}

\* C6: a message is stored with read = false, and a message that is read stays read
C6_ReadIsOneWay ==
  [][/\ \A n \in msgs' : (\A m \in msgs : m.id # n.id) => ~n.read
     /\ \A m \in msgs : m.read => \A n \in msgs' : n.id = m.id => n.read]_vars

C6_Witness ==
  \E m, n \in msgs : m.read /\ ~n.read /\ n.id > m.id

C9_SendNeverStoresSelfMessage ==
  [][\A p \in Viewers, r \in Requests :
       SendMessageDone(p, r) => \A m \in msgs' \ msgs : m.sender_id # m.receiver_id]_vars

\* C10: sendMessage called with a draft that is empty once trimmed sends no
\* request and leaves the table unchanged, and a message that sendMessage
\* stores has trimmed, non-empty content
C10_BlankDraftNotStored ==
  [][\A p \in Viewers :
       /\ (Trim(newMessage[p]) = <<>> /\ (SendMessage(p) \/ SendMessageIgnored(p)))
            => UNCHANGED <<msgs, inflight>>
       /\ \A r \in Requests :
            SendMessageDone(p, r)
              => \A m \in msgs' \ msgs : m.content # <<>> /\ Blank \notin {m.content[i] : i \in {1, Len(m.content)}}]_vars

C10_Witness ==
  \E p \in Viewers :
    /\ newMessage[p] = <<Blank>>
    /\ selectedConversation[p] # NULL
    /\ \E m \in msgs : m.sender_id = user[p] /\ m.content = <<"x">>

\* C11 as stated: an update of read sent by a caller who is not the receiver
\* named in it is answered with an error and changes no message
C11_NonReceiverRejected ==
  [][\A uid, receiver, sender \in Users :
       (/\ ApiMarkRead(uid, receiver, sender)
        /\ uid # receiver
        /\ Unread(msgs, receiver, sender) # {})
         => reply'.status # "ok" /\ msgs' = msgs]_vars

\* C11 amended: an update of read changes only messages whose receiver is the
\* caller; sent by a caller who is not the receiver named in it, it is answered
\* without an error, writes no row and leaves every message as it was
C11_NonReceiverChangesNothing ==
  [][\A uid, receiver, sender \in Users :
       ApiMarkRead(uid, receiver, sender)
         => /\ \A m \in msgs : m.receiver_id # uid => m \in msgs'
            /\ uid # receiver
                 => msgs' = msgs /\ reply'.status = "ok" /\ reply'.rows = 0]_vars

C11_Witness ==
  /\ reply.op = "update" /\ reply.uid # reply.receiver /\ reply.uid = reply.sender
  /\ reply.rows = 0
  /\ Unread(msgs, reply.receiver, reply.sender) # {}
  /\ \E m \in msgs : m.read

\* C12: the sender_id of a message an insert stores is the signed-in user who
\* sent the insert, and an insert naming another user as sender is refused and
\* stores nothing
C12_SenderIsCaller ==
  [][\A uid, sender, receiver \in Users, content \in ApiTexts :
       /\ ApiInsert(uid, sender, receiver, content)
            => \A m \in msgs' \ msgs : m.sender_id = uid
       /\ (ApiInsertRejected(uid, sender, receiver, content) /\ sender # uid)
            => msgs' = msgs /\ reply'.status = "forbidden"]_vars

C12_Witness ==
  /\ reply.op = "insert" /\ reply.uid # reply.sender /\ reply.status = "forbidden"
  /\ \E m \in msgs : m.sender_id = reply.uid
  /\ \A m \in msgs : m.sender_id # reply.sender

\* the rows of a result
Rows(data) == {data[i] : i \in 1..Len(data)}

\* the stored messages exchanged between two users
Between(x, y) == {m \in msgs : {m.sender_id, m.receiver_id} = {x, y}}

\* C13: the rows fetchMessages returns for a counterpart are the stored
\* messages exchanged between the caller and that counterpart, each once:
\* none of another conversation, and none left out
C13_ListIsTheConversation ==
  [][\A p \in Viewers, r \in Requests :
       FetchMessagesResponse(p, r)
         => /\ Rows(messages'[p]) = Between(user[p], r.other)
            /\ Len(messages'[p]) = Cardinality(Between(user[p], r.other))]_vars

C13_Witness ==
  \E p \in Viewers, o \in Users :
    /\ o # user[p]
    /\ BagIn(UpdateRequest(o), inflight[p])
    /\ messages[p] # <<>>
    /\ Rows(messages[p]) = Between(user[p], o)
    /\ \E m \in msgs : m \notin Between(user[p], o)

\* C17: an INSERT event reaches every channel that was subscribed for the
\* receiver when the message was stored; a channel starts with no event, and
\* the only events a channel gets are for messages stored at that moment, so
\* a channel made later is never sent an earlier message
C17_NoReplay ==
  [][/\ \A c \in 1..Len(channels) : \A row \in msgs' \ msgs :
          row.receiver_id = user[channels[c].page]
            => channels'[c].queue = Append(channels[c].queue, row)
     /\ \A c \in 1..Len(channels') :
          LET before == IF c <= Len(channels) THEN Rows(channels[c].queue) ELSE {}
          IN Rows(channels'[c].queue) \subseteq before \cup (msgs' \ msgs)
     /\ \A c \in 1..Len(channels') : c > Len(channels) => channels'[c].queue = <<>>]_vars

\* a tab of the receiver had its channel when a message was stored and holds
\* the event; another tab of the receiver, whose callback has not run yet
\* (its first fetchConversations is still waiting), subscribed later and holds none
C17_Witness ==
  \E c, d \in 1..Len(channels) : \E m \in msgs :
    /\ c < d
    /\ user[channels[c].page] = m.receiver_id
    /\ user[channels[d].page] = m.receiver_id
    /\ m \in Rows(channels[c].queue)
    /\ channels[d].queue = <<>>
    /\ loading[channels[d].page]
    /\ BagCardinality(inflight[channels[d].page]) = MaxInFlight

\* C18: a message stored while the receiver has no channel is sent to no
\* channel, then or later; the receiver's fetchConversations and fetchMessages
\* return every stored message addressed to the receiver whatever the channels hold
C18_VisibleWithoutEvent ==
  [][/\ \A row \in msgs' \ msgs :
          (\A c \in 1..Len(channels) : user[channels[c].page] # row.receiver_id)
            => channels' = channels
     /\ \A c \in 1..Len(channels') : \A row \in Rows(channels'[c].queue) :
          row \in msgs' \ msgs \/ (c <= Len(channels) /\ row \in Rows(channels[c].queue))
     /\ \A p \in Viewers :
          FetchConversationsDone(p)
            => \A m \in msgs : m.receiver_id = user[p]
                 => \E i \in 1..Len(conversations'[p]) :
                      conversations'[p][i].userId = m.sender_id
     /\ \A p \in Viewers, r \in Requests :
          FetchMessagesResponse(p, r)
            => \A m \in msgs : (m.receiver_id = user[p] /\ m.sender_id = r.other)
                 => m \in Rows(messages'[p])]_vars

\* the receiver's tab lists and shows a message while its channel holds no event
C18_Witness ==
  \E p \in Viewers : \E m \in msgs :
    /\ m.receiver_id = user[p] /\ m.sender_id # user[p]
    /\ Len(channels) = 1 /\ channels[1].page = p /\ channels[1].queue = <<>>
    /\ issued = 1
    /\ \E i \in 1..Len(conversations[p]) : conversations[p][i].userId = m.sender_id
    /\ m \in Rows(messages[p])

C20_FanOutToReceiverOnly ==
  [][\A row \in msgs' \ msgs : \A c \in 1..Len(channels) :
       channels'[c].queue =
         IF user[channels[c].page] = row.receiver_id
           THEN Append(channels[c].queue, row)
           ELSE channels[c].queue]_vars

\* two tabs of the receiver hold the event, and the sender's tab, which
\* subscribed before them, does not
C20_Witness ==
  \E c, d, e \in 1..Len(channels) : \E m \in msgs :
    /\ c # d /\ e < c /\ e < d
    /\ user[channels[c].page] = m.receiver_id /\ m \in Rows(channels[c].queue)
    /\ user[channels[d].page] = m.receiver_id /\ m \in Rows(channels[d].queue)
    /\ user[channels[e].page] = m.sender_id /\ m \notin Rows(channels[e].queue)
    /\ m.sender_id # m.receiver_id

\* the stored messages that name a user as sender or receiver
Naming(table, id) == {m \in table : m.sender_id = id \/ m.receiver_id = id}

\* the identifiers of the rows of a table
IdsOf(table) == {m.id : m \in table}

\* the counterparts listConversations summarises for a user over a table
Counterparts(table, u) == {OtherUserId(u, m) : m \in {x \in table : ConversationsFilter(u, x)}}

\* C14: when handleDeleteProfile has finished with its success message for a
\* user, no stored message has that user as sender or receiver, and no
\* remaining user's conversations hold a summary for that user
C14_DeletedUserLeavesNoMessage ==
  [][(adminPc = "deleteAccount" /\ adminPc' = "idle" /\ toast' = "success")
       => (/\ Naming(msgs', deletingId) = {}
           /\ \A u \in Users \ {deletingId} : deletingId \notin Counterparts(msgs', u))]_vars

\* C15: while the deletion of a user is under way (the delete on messages or
\* the delete on profiles has been sent) no message naming that user is
\* stored, and when the deletion has finished with its success message no
\* stored message names that user
C15_NoAppendDuringDeletion ==
  [][/\ (adminPc \in {"messages", "profile"})
          => (\A row \in msgs' \ msgs : row \notin Naming(msgs', deletingId))
     /\ (adminPc = "deleteAccount" /\ toast' = "success")
          => (\A m \in msgs' : deletingId # m.sender_id /\ deletingId # m.receiver_id)]_vars

\* C16: a step that removes a message removes every message naming the user
\* being deleted, sent and received alike, and no other message
C16_BothDirectionsTogether ==
  [][IdsOf(msgs) \ IdsOf(msgs') # {}
       => (Naming(msgs', deletingId) = {}
           /\ \A m \in msgs : m \in Naming(msgs, deletingId) \/ m \in msgs')]_vars

\* the deleted user had sent a message (its event is on the remaining user's
\* tab) and been sent one (the last insert), and neither is stored
C16_Witness ==
  \E p \in OtherViewers :
    /\ deletingId = NULL /\ toast = "success"
    /\ user[p] \in profiles
    /\ reply.op = "insert" /\ reply.status = "created"
    /\ reply.sender = user[p] /\ reply.receiver \notin profiles
    /\ \E c \in 1..Len(channels) : \E row \in Rows(channels[c].queue) :
         channels[c].page = p /\ row.sender_id = reply.receiver
    /\ msgs = {}

\* the users with whom u has a stored message, as sender or as receiver
Exchanged(table, u) ==
  {c \in Users : \E m \in table : \/ (m.sender_id = u /\ m.receiver_id = c)
                                  \/ (m.sender_id = c /\ m.receiver_id = u)}

\* C21: the list fetchConversations builds holds one entry for each user the
\* viewer has a stored message with, no user twice and no other user
C21_OneSummaryPerCounterpart ==
  [][\A p \in Viewers :
       FetchConversationsDone(p)
         => /\ {conversations'[p][i].userId : i \in 1..Len(conversations'[p])}
                 = Exchanged(msgs, user[p])
            /\ \A i, j \in 1..Len(conversations'[p]) :
                 conversations'[p][i].userId = conversations'[p][j].userId => i = j]_vars

\* two messages of one conversation, one each way, are stored and the list
\* holds the single entry of their counterpart
C21_Witness ==
  \E p \in Viewers :
    /\ ~loading[p] /\ Len(conversations[p]) = 1
    /\ conversations[p][1].userId # user[p]
    /\ \E m, n \in msgs :
         /\ m.sender_id = user[p] /\ m.receiver_id = conversations[p][1].userId
         /\ n.receiver_id = user[p] /\ n.sender_id = conversations[p][1].userId

\* m is stored no later than n, by created_at and then by id
NoLater(m, n) ==
  m.created_at < n.created_at \/ (m.created_at = n.created_at /\ m.id <= n.id)

\* C22: the lastMessage of every entry fetchConversations builds for another
\* user is the content of the message of that conversation with the largest
\* (created_at, id)
C22_LastMessageIsLatest ==
  [][\A p \in Viewers :
       FetchConversationsDone(p)
         => \A i \in 1..Len(conversations'[p]) :
              \A n \in msgs :
                (/\ conversations'[p][i].userId # user[p]
                 /\ MessagesFilter(user[p], conversations'[p][i].userId, n)
                 /\ \A m \in msgs :
                      MessagesFilter(user[p], conversations'[p][i].userId, m) => NoLater(m, n))
                  => conversations'[p][i].lastMessage = n.content]_vars

\* C23: when the insert of sendMessage is answered with an error no row is
\* stored or changed, the draft and the displayed messages stay as they were,
\* the error is shown and no request is sent
C23_FailedSendChangesNothing ==
  [][\A p \in Viewers, r \in Requests :
       SendMessageFails(p, r)
         => /\ msgs' = msgs /\ issued' = issued
            /\ newMessage'[p] = newMessage[p]
            /\ messages'[p] = messages[p]
            /\ conversations'[p] = conversations[p]
            /\ notice'[p] = "Erro ao enviar mensagem"
            /\ inflight'[p] = inflight[p] (-) SetToBag({r})]_vars

\* sendMessage has shown its error: the draft is still in the input of the
\* open conversation, its messages are still shown, no request is waiting, and
\* no stored message of the viewer has the draft's text
C23_Witness ==
  \E p \in Viewers :
    /\ mounted[p] /\ selectedConversation[p] # NULL
    /\ notice[p] = "Erro ao enviar mensagem"
    /\ Trim(newMessage[p]) # <<>>
    /\ messages[p] # <<>>
    /\ inflight[p] = EmptyBag
    /\ \A m \in msgs : ~(m.sender_id = user[p] /\ m.content = Trim(newMessage[p]))

\* the channels a tab has made that have not been removed
LiveChannels(p) == {c \in 1..Len(channels) : channels[c].page = p}

\* C24: a tab that shows the Messages page has at most one channel, and a tab
\* that has left the page has none
C24_OneChannelPerView ==
  \A p \in Pages : Cardinality(LiveChannels(p)) <= IF mounted[p] THEN 1 ELSE 0

\* C25: when no fetchMessages of a tab is waiting for an answer, every
\* message the tab displays belongs to the conversation it has selected
C25_ShownListIsSelected ==
  \A p \in Viewers :
    (/\ selectedConversation[p] # NULL
     /\ \A r \in Pending(p) : r.op # "fetchMessages")
      => \A m \in Rows(messages[p]) : MessagesFilter(user[p], selectedConversation[p], m)

\* the unreadCount the list of a tab shows for a counterpart (0 when not listed)
ShownUnread(p, c) ==
  IF \E i \in 1..Len(conversations[p]) : conversations[p][i].userId = c
    THEN (CHOOSE conv \in Rows(conversations[p]) : conv.userId = c).unreadCount
    ELSE 0

\* the tab has the conversation with another user open, its fetchMessages is complete and the
\* table holds no unread message of it, and the list still shows some as unread
OpenedAndMarked(p, c) ==
  /\ mounted[p] /\ selectedConversation[p] = c /\ c # user[p]
  /\ \A r \in Pending(p) : r.op # "fetchMessages"
  /\ Unread(msgs, user[p], c) = {}
  /\ ShownUnread(p, c) > 0

\* C26: once a conversation has been opened and its messages are marked read
\* in the table, the unread count the list shows for it becomes 0
C26_UnreadCountClears ==
  \A p \in Viewers, c \in Users : OpenedAndMarked(p, c) ~> (ShownUnread(p, c) = 0)

\* C27: when the callback of a channel of an open page handles the event of a
\* message sent by the user whose conversation the page has selected, and the
\* page does not display the message yet, it is appended to the displayed messages
C27_EventOfSelectedIsAppended ==
  [][\A c \in 1..Len(channels) :
       (/\ Receive(c)
        /\ ~channels[c].stale
        /\ Head(channels[c].queue).id \notin IdsOf(Rows(messages[channels[c].page]))
        /\ Head(channels[c].queue).sender_id = selectedConversation[channels[c].page])
         => messages'[channels[c].page]
              = Append(messages[channels[c].page], Head(channels[c].queue))]_vars

\* C28: a call of delete-account removes at most the user it names, or the
\* caller when it names none; it removes a user other than the caller only for
\* a caller with the admin role; without a header or a user of the token it
\* answers 401, for a caller without the role who names a user 403, and in
\* both cases no row of any table is removed
C28_OnlyAdminsDeleteOthers ==
  [][\A token \in Tokens, targetUserId \in Users \cup {NULL} :
       DeleteAccount(token, targetUserId)
         => /\ authUsers \ authUsers' \subseteq {targetUserId, token}
            /\ \A id \in (authUsers \ authUsers') \cup (profiles \ profiles') :
                 id # token => token \in Admins /\ targetUserId = id
            /\ (token \notin authUsers)
                 => reply'.status = "401" /\ UNCHANGED <<accountVars, msgs>>
            /\ (token \in authUsers /\ token \notin Admins /\ targetUserId # NULL)
                 => reply'.status = "403" /\ UNCHANGED <<accountVars, msgs>>]_vars

\* a user without the admin role has named another, existing user and been
\* answered 403
C28_Witness ==
  /\ reply.op = "delete-account" /\ reply.status = "403"
  /\ reply.uid \in authUsers \ Admins
  /\ reply.receiver \in authUsers \ {reply.uid}
  /\ msgs # {}

\* the favorites rows that name a user when none has been removed
FavoritesOf(id) == {Favorite(x, y) : x \in {id}, y \in Users \ {id}}
                     \cup {Favorite(x, y) : x \in Users \ {id}, y \in {id}}

\* C29: when handleDeleteProfile shows its error the type profile and the
\* favorites of the user are all still stored, and when it shows its success
\* the profile, the messages and the auth account of the user are all gone
C29_AllOrNothing ==
  [][\A ok \in BOOLEAN :
       /\ (AdminProfileStep(ok) /\ toast' = "error")
            => /\ deletingId \in typeProfiles'
               /\ FavoritesOf(deletingId) \subseteq favorites'
               /\ deletingId \in profiles'
       /\ (AdminDeleteAccountStep(ok) /\ toast' = "success")
            => /\ deletingId \notin profiles'
               /\ Naming(msgs', deletingId) = {}
               /\ deletingId \notin authUsers']_vars

\* C30: the update of fetchMessages run by viewer v for counterpart c keeps
\* every row, changes nothing but the read column of the rows c sent to v, and
\* leaves the rows v sent to c and the rows of v with anyone else as they were
C30_MarkReadFrame ==
  [][\A p \in Viewers, r \in Requests :
       FetchMessagesUpdate(p, r)
         => /\ IdsOf(msgs') = IdsOf(msgs)
            /\ \A m \in msgs :
                 IF m.receiver_id = user[p] /\ m.sender_id = r.other
                   THEN \E n \in msgs' : n = [m EXCEPT !.read = n.read]
                   ELSE m \in msgs']_vars

\* the conversation with another user has been opened and marked: the message
\* received from that user is read and the one sent to that user is still unread
C30_Witness ==
  \E p \in Viewers :
    /\ selectedConversation[p] \notin {NULL, user[p]}
    /\ inflight[p] = EmptyBag
    /\ \E m \in msgs :
         m.receiver_id = user[p] /\ m.sender_id = selectedConversation[p] /\ m.read
    /\ \E n \in msgs :
         n.sender_id = user[p] /\ n.receiver_id = selectedConversation[p] /\ ~n.read

====
